---- MODULE Spec2Model ----
(***************************************************************************)
(* A model of the urkel-trie crate: the base-2 Merkle trie of tree.rs over *)
(* the append-only log store of db.rs, with the node codec of node.rs, the *)
(* hashing helpers of hasher.rs and the proofs of proof.rs.                *)
(*                                                                         *)
(* Bytes.  A byte string is a sequence of cells.  A cell <<b>> is the      *)
(* concrete byte b.  Blake2b is modelled as a collision-free constructor,  *)
(* so byte i of a non-zero digest d is the symbolic cell <<i>> \o d; the   *)
(* zero digest is 32 concrete zero bytes, as Digest::zero() is.  Where a   *)
(* digest is laid out in a buffer or a file, its byte 0 is stored as the   *)
(* cell <<0>> \o d and its byte i > 0 as the back-reference <<-i>> to that *)
(* cell; CellAt gives the cell a read sees at an offset.                   *)
(***************************************************************************)
EXTENDS Integers, Sequences, FiniteSets, TLC

\* ------------------------------------------------------------------ bounds
NumKeys == 3
MaxOps == 4
MaxCommits == 2
\* a crash is simulated after at most this many insertions and removals
MaxCrashOps == 2
\* the commits of the trees that only insert, over several sessions
MaxAppendCommits == 3

\* ------------------------------------------------------- program constants
KEY_SIZE == 256
LEAF_NODE_SIZE == 40
INTERNAL_NODE_SIZE == 76
META_ENTRY_SIZE == 16
DIGEST_SIZE == 32
U16_MOD == 65536

\* META_MAGIC = 0x6d726b6c, as write_u32::<LittleEndian> lays it out
META_MAGIC == << <<108>>, <<107>>, <<114>>, <<109>> >>

\* The element of a one-element set.  The({e(x) : x \in {v}}) is e(v) with
\* v evaluated once: what a call returned is bound this way before the
\* code that follows reads it several times.
The(S) == CHOOSE x \in S : TRUE

\* ------------------------------------------------------------------ bytes
ByteCell(b) == <<b>>

IsReal(c) == Len(c) = 1 /\ c[1] >= 0

IsBackRef(c) == c[1] < 0

Bytes(s) == [i \in 1..Len(s) |-> ByteCell(s[i])]

Zeros(n) == [i \in 1..n |-> ByteCell(0)]

RECURSIVE Flatten(_)
Flatten(cells) ==
    IF cells = <<>> THEN <<>>
    ELSE <<Len(Head(cells))>> \o Head(cells) \o Flatten(Tail(cells))

\* The cell at 1-based offset o of stored bytes f
CellAt(f, o) ==
    IF IsBackRef(f[o]) THEN <<-f[o][1]>> \o Tail(f[o + f[o][1]]) ELSE f[o]

\* What a read of n bytes at 0-based offset from of stored bytes f sees: a
\* back-reference whose digest starts before the read is replaced by its cell
ReadCells(f, from, n) ==
    LET raw == SubSeq(f, from + 1, from + n)
    IN IF n = 0 \/ ~IsBackRef(raw[1]) THEN raw
       ELSE [i \in 1..n |-> IF IsBackRef(raw[i]) /\ i + raw[i][1] < 1
                            THEN CellAt(f, from + i) ELSE raw[i]]

\* bits[from .. from+n] of a packet
Slice(cells, from, n) == ReadCells(cells, from, n)

\* The same bytes with no back-reference left
Resolved(cells) ==
    IF \A i \in 1..Len(cells) : ~IsBackRef(cells[i]) THEN cells
    ELSE [i \in 1..Len(cells) |-> CellAt(cells, i)]

\* ---------------------------------------------------------------- digests
ZeroDigest == <<0>>

hash(data) == <<1>> \o Flatten(data)

hash_leaf(key, value) == <<2, Len(key)>> \o key \o value

hash_leaf_value(key, value) == hash_leaf(key, hash(value))

hash_internal(left, right) == <<3, Len(left)>> \o left \o right

\* The 32 bytes of a digest (Digest.0), as stored
DigestCells(d) ==
    IF d = ZeroDigest THEN Zeros(DIGEST_SIZE)
    ELSE [i \in 1..DIGEST_SIZE |-> IF i = 1 THEN <<0>> \o d ELSE <<1 - i>>]

\* Digest::from(&[u8]): 32 cells that are not the bytes of one digest make
\* a digest equal to no digest any hash produced.
DigestFrom(cells) ==
    The({ IF c = Zeros(DIGEST_SIZE) THEN ZeroDigest
          ELSE IF Len(c[1]) >= 2 /\ c[1][1] = 0 /\ Tail(c) = Tail(DigestCells(Tail(c[1])))
               THEN Tail(c[1])
               ELSE <<4>> \o Flatten(Resolved(c)) : c \in {cells} })

\* The keys callers use: the first NumKeys of these one-byte names
KeyBytes == <<1, 2, 5, 3, 4, 6, 7>>

KeyNames == {Bytes(<<KeyBytes[i]>>) : i \in 1..NumKeys}

\* The values callers store
Values == {Bytes(<<118>>), Bytes(<<119, 50>>)}

RECURSIVE ByteRev(_, _)
ByteRev(n, w) == IF w = 0 THEN 0 ELSE (n % 2) * (2 ^ (w - 1)) + ByteRev(n \div 2, w - 1)

\* Byte oct of a digest, as has_bit reads it.  Blake2b's output is not
\* computed: the digest of the one-byte name n is given the first byte
\* ByteRev(n, 8), so that names 1, 2, 5 start 1000.., 0100.., 1010.. (two
\* keys that part at the first bit, two that share two bits) and distinct
\* names differ within the first byte; every other byte is 0.
DigestByte(d, oct) ==
    IF oct = 0 /\ Len(d) = 3 /\ d[1] = 1 /\ d[2] = 1 THEN ByteRev(d[3], 8) ELSE 0

has_bit(key, index) ==
    LET oct == index \div 8
        bit == index % 8
    IN ((DigestByte(key, oct) \div (2 ^ (7 - bit))) % 2) = 1

\* -------------------------------------------------------- little-endian
U16(n) == << ByteCell(n % 256), ByteCell((n \div 256) % 256) >>

U32(n) == << ByteCell(n % 256), ByteCell((n \div 256) % 256),
             ByteCell((n \div 65536) % 256), ByteCell((n \div 16777216) % 256) >>

\* An integer read from cells that hold hash bytes has no known value: -1.
\* A u32 is kept below 2^31 (TLC's integers); no position or size the model
\* writes comes near it, so u32 arithmetic never wraps here, and a u32 read
\* with its top bit set is likewise given no value.
ReadU16(cells, off) ==
    IF IsReal(cells[off + 1]) /\ IsReal(cells[off + 2])
    THEN cells[off + 1][1] + 256 * cells[off + 2][1]
    ELSE -1

ReadU32(cells, off) ==
    IF (\A i \in 1..4 : IsReal(cells[off + i])) /\ cells[off + 4][1] < 128
    THEN cells[off + 1][1] + 256 * cells[off + 2][1]
         + 65536 * cells[off + 3][1] + 16777216 * cells[off + 4][1]
    ELSE -1

\* ------------------------------------------------------------------ nodes
NoValue == [some |-> FALSE, v |-> <<>>]

SomeValue(v) == [some |-> TRUE, v |-> v]

EmptyNode == [type |-> "Empty"]

HashNode(index, pos, data, is_leaf) ==
    [type |-> "Hash", index |-> index, pos |-> pos, data |-> data, is_leaf |-> is_leaf]

LeafNode(index, pos, data, key, value, vindex, vpos, vsize) ==
    [type |-> "Leaf", index |-> index, pos |-> pos, data |-> data, key |-> key,
     value |-> value, vindex |-> vindex, vpos |-> vpos, vsize |-> vsize]

InternalNode(index, pos, data, left, right) ==
    [type |-> "Internal", index |-> index, pos |-> pos, data |-> data,
     left |-> left, right |-> right]

\* What a read of a node can give besides a node: the io error, the panic
\* of a failed assertion, and a packet whose integers are hash bytes
ErrNode == [type |-> "Err"]
PanicNode == [type |-> "Panic"]
UnknownNode == [type |-> "Unknown"]

IsNode(n) == n.type \in {"Empty", "Hash", "Leaf", "Internal"}

RECURSIVE NodeHash(_)
NodeHash(n) ==
    CASE n.type = "Empty" -> ZeroDigest
      [] n.type = "Hash" -> n.data
      [] n.type = "Leaf" -> n.data
      [] n.type = "Internal" -> hash_internal(NodeHash(n.left), NodeHash(n.right))

\* set_hash of tree.rs, update_data_value of node.rs
set_hash(n, h) == [n EXCEPT !.data = h]

get_index_position(n) ==
    IF n.type = "Empty" THEN <<0, 0>> ELSE <<n.index, n.pos>>

set_index_position(n, i, p) == [n EXCEPT !.index = i, !.pos = p]

set_value_index_position(n, i, p) == [n EXCEPT !.vindex = i, !.vpos = p]

into_hash_node(n) ==
    CASE n.type = "Internal" -> HashNode(n.index, n.pos, NodeHash(n), 0)
      [] n.type = "Leaf" -> HashNode(n.index, n.pos, NodeHash(n), 1)
      [] OTHER -> n

is_leaf(n) ==
    CASE n.type = "Leaf" -> TRUE
      [] n.type = "Hash" -> n.is_leaf = 1
      [] OTHER -> FALSE

is_empty(n) == n.type = "Empty"

new_leaf_node(key, value) ==
    LeafNode(0, 0, hash_leaf_value(key, value), key, SomeValue(value), 0, 0,
             Len(value) % U16_MOD)

new_internal_node(left, right) == InternalNode(0, 0, ZeroDigest, left, right)

tag_pos_for_leaf_or_internal(pos, leaf) ==
    IF leaf THEN pos * 2 + 1 ELSE pos * 2

\* get_pos_tag: <<pos, is_leaf>>
get_pos_tag(flagged_pos) == <<flagged_pos \div 2, flagged_pos % 2>>

\* Node::encode of a Leaf or an Internal; the caller has checked the kind
encode(n) ==
    IF n.type = "Leaf"
    THEN U16((n.vindex * 2 + 1) % U16_MOD) \o U32(n.vpos) \o U16(n.vsize)
         \o DigestCells(n.key)
    ELSE LET l == get_index_position(n.left)
             r == get_index_position(n.right)
         IN U16((l[1] * 2) % U16_MOD)
            \o U32(tag_pos_for_leaf_or_internal(l[2], is_leaf(n.left)))
            \o DigestCells(NodeHash(n.left))
            \o U16(r[1])
            \o U32(tag_pos_for_leaf_or_internal(r[2], is_leaf(n.right)))
            \o DigestCells(NodeHash(n.right))

\* an encode that gives a packet of zeros for a node that is neither a Leaf
\* nor an Internal
encode_any(n) ==
    IF n.type \in {"Leaf", "Internal"}
    THEN [ok |-> TRUE, bytes |-> encode(n)]
    ELSE [ok |-> TRUE, bytes |-> Zeros(INTERNAL_NODE_SIZE)]

\* Node::encode as the io::Result it returns, for a Leaf that holds its
\* value, an Internal, and the other kinds: [ok, bytes].  encode above is
\* its unwrap().
encode_result(n) ==
    IF n.type \in {"Leaf", "Internal"}
    THEN [ok |-> TRUE, bytes |-> encode(n)]
    ELSE [ok |-> FALSE, bytes |-> <<>>]

\* One child descriptor of an Internal, given its file index as decoded
DecodeChild(bits, off, index) ==
    IF index # 0
    THEN LET t == get_pos_tag(ReadU32(bits, off + 2))
         IN HashNode(index, t[1], DigestFrom(Slice(bits, off + 6, DIGEST_SIZE)), t[2])
    ELSE EmptyNode

\* Node::decode(bits, is_leaf) on a packet of the size of its kind
decode(bits, leaf) ==
    IF leaf
    THEN LET shifted_vindex == ReadU16(bits, 0)
             vpos == ReadU32(bits, 2)
             vsize == ReadU16(bits, 6)
         IN IF shifted_vindex = -1 THEN UnknownNode
            ELSE IF shifted_vindex % 2 # 1 THEN PanicNode
            ELSE IF vpos = -1 \/ vsize = -1 THEN UnknownNode
            ELSE LeafNode(0, 0, ZeroDigest, DigestFrom(Slice(bits, 8, DIGEST_SIZE)),
                          NoValue, shifted_vindex \div 2, vpos, vsize)
    ELSE LET shifted_left_index == ReadU16(bits, 0)
             right_index == ReadU16(bits, 38)
         IN IF shifted_left_index = -1 THEN UnknownNode
            ELSE IF shifted_left_index % 2 # 0 THEN PanicNode
            ELSE IF right_index = -1 THEN UnknownNode
            ELSE IF shifted_left_index \div 2 # 0 /\ ReadU32(bits, 2) = -1 THEN UnknownNode
            ELSE IF right_index # 0 /\ ReadU32(bits, 40) = -1 THEN UnknownNode
            ELSE InternalNode(0, 0, ZeroDigest,
                              DecodeChild(bits, 0, shifted_left_index \div 2),
                              DecodeChild(bits, 38, right_index))

\* ------------------------------------------------------------------ state
VARIABLES
    root,      \* UrkelTree.root
    files,     \* the directory: file index -> the bytes of that log file
    meta,      \* Store.meta
    pos,       \* Store.pos
    buf,       \* Store.buf
    handle,    \* the index of the file Store.file appends to
    status,    \* "ok", or how the process ended: "panic", "hang", "unknown"
    model,     \* what the caller expects: key name -> the value last inserted
    last,      \* the last mutating call, with the root hash before it
    phase,     \* the shape of the history of calls so far
    durable,   \* what the caller expects of a reopened tree
    nops,      \* mutating calls so far
    ncommits,  \* commits so far
    nocommit,  \* [st, root]: the same calls on a tree that is never committed
    out        \* the result of the last get or prove

vars == <<root, files, meta, pos, buf, handle, status, model, last, phase,
          durable, nops, ncommits, nocommit, out>>

\* ------------------------------------------------------------ store reads
\* Store::get_node on the directory fs: a short read leaves the rest of the
\* packet zero
get_node_in(fs, index, p, leaf) ==
    IF index \notin DOMAIN fs THEN ErrNode
    ELSE LET f == fs[index]
             size == IF leaf THEN LEAF_NODE_SIZE ELSE INTERNAL_NODE_SIZE
         IN The({ decode(packet, leaf) :
                  packet \in {IF p >= Len(f) THEN Zeros(size)
                              ELSE ReadCells(f \o Zeros(size), p, size)} })

get_node(index, p, leaf) == get_node_in(files, index, p, leaf)

\* Store::get_value: read_exact fails when the file ends early
get_value_in(fs, vindex, vpos, vsize) ==
    IF vindex \notin DOMAIN fs THEN [ok |-> FALSE, v |-> <<>>]
    ELSE IF vpos + vsize > Len(fs[vindex]) THEN [ok |-> FALSE, v |-> <<>>]
    ELSE [ok |-> TRUE, v |-> Resolved(ReadCells(fs[vindex], vpos, vsize))]

get_value(vindex, vpos, vsize) == get_value_in(files, vindex, vpos, vsize)

\* ----------------------------------------------------------------- insert
Descent(st, cur, depth, nodes) ==
    [st |-> st, root |-> cur, depth |-> depth, nodes |-> nodes]

\* add_child without its loop `while has_bit(&nkey, depth) == has_bit(&key, depth)`
FirstDiffNoLoop(a, b, depth) == depth

\* the depth at which two keys first differ, from depth on; KEY_SIZE when
\* has_bit would index past the digest
RECURSIVE FirstDiff(_, _, _)
FirstDiff(a, b, depth) ==
    IF depth >= KEY_SIZE THEN KEY_SIZE
    ELSE IF has_bit(a, depth) # has_bit(b, depth) THEN depth
    ELSE FirstDiff(a, b, depth + 1)

\* the loop of add_child
RECURSIVE AddDescend(_, _, _, _, _)
AddDescend(cur, depth, nodes, nkey, leaf_hash) ==
    CASE cur.type = "Empty" -> Descent("break", cur, depth, nodes)
      [] cur.type = "Hash" ->
            The({ IF tn.type \in {"Err", "Panic"} THEN Descent("panic", cur, depth, nodes)
                  ELSE IF tn.type = "Unknown" THEN Descent("unknown", cur, depth, nodes)
                  ELSE AddDescend(set_hash(tn, cur.data), depth, nodes, nkey, leaf_hash) :
                  tn \in {get_node(cur.index, cur.pos, is_leaf(cur))} })
      [] cur.type = "Leaf" ->
            IF nkey = cur.key
            THEN IF leaf_hash = cur.data
                 THEN Descent("return", cur, depth, nodes)
                 ELSE Descent("break", cur, depth, nodes)
            ELSE LET d == FirstDiff(nkey, cur.key, depth)
                 IN IF d = KEY_SIZE THEN Descent("panic", cur, depth, nodes)
                    ELSE Descent("break", cur, d + 1,
                                 nodes \o [i \in 1..(d - depth) |-> EmptyNode] \o <<cur>>)
      [] cur.type = "Internal" ->
            IF depth = KEY_SIZE THEN Descent("panic", cur, depth, nodes)
            ELSE IF has_bit(nkey, depth)
                 THEN AddDescend(cur.right, depth + 1, Append(nodes, cur.left),
                                 nkey, leaf_hash)
                 ELSE AddDescend(cur.left, depth + 1, Append(nodes, cur.right),
                                 nkey, leaf_hash)

\* the walk with the new subtree always made the left child
RECURSIVE RebuildLeft(_, _, _, _)
RebuildLeft(new_root, nodes, depth, nkey) ==
    IF nodes = <<>> THEN new_root
    ELSE RebuildLeft(new_internal_node(new_root, nodes[Len(nodes)]),
                     SubSeq(nodes, 1, Len(nodes) - 1), depth - 1, nkey)

\* "Walk the tree bottom up to form the new root"
RECURSIVE Rebuild(_, _, _, _)
Rebuild(new_root, nodes, depth, nkey) ==
    IF nodes = <<>> THEN new_root
    ELSE LET n == nodes[Len(nodes)]
             rest == SubSeq(nodes, 1, Len(nodes) - 1)
         IN IF has_bit(nkey, depth - 1)
            THEN Rebuild(new_internal_node(n, new_root), rest, depth - 1, nkey)
            ELSE Rebuild(new_internal_node(new_root, n), rest, depth - 1, nkey)

\* UrkelTree::add_child: [st, root]
add_child(r, nkey, value) ==
    The({ CASE d.st = "return" -> [st |-> "ok", root |-> d.root]
            [] d.st = "break" ->
                  [st |-> "ok",
                   root |-> Rebuild(new_leaf_node(nkey, value), d.nodes, d.depth, nkey)]
            [] OTHER -> [st |-> d.st, root |-> EmptyNode] :
          d \in {AddDescend(r, 0, <<>>, nkey, hash_leaf_value(nkey, value))} })

\* ----------------------------------------------------------------- remove
\* the bubbling loop: drop the Empty siblings above a lone leaf
RECURSIVE PopEmpties(_)
PopEmpties(nodes) ==
    IF nodes = <<>> THEN nodes
    ELSE IF ~is_empty(nodes[Len(nodes)]) THEN nodes
    ELSE PopEmpties(SubSeq(nodes, 1, Len(nodes) - 1))

\* the loop of remove_child; "hang" when a Hash node cannot be read, as
\* the loop then meets the same node again
RECURSIVE RemDescend(_, _, _, _)
RemDescend(cur, depth, nodes, nkey) ==
    CASE cur.type = "Empty" -> Descent("return", cur, depth, nodes)
      [] cur.type = "Hash" ->
            The({ IF hn.type = "Err" THEN Descent("hang", cur, depth, nodes)
                  ELSE IF hn.type = "Panic" THEN Descent("panic", cur, depth, nodes)
                  ELSE IF hn.type = "Unknown" THEN Descent("unknown", cur, depth, nodes)
                  ELSE RemDescend(set_hash(hn, cur.data), depth, nodes, nkey) :
                  hn \in {get_node(cur.index, cur.pos, is_leaf(cur))} })
      [] cur.type = "Internal" ->
            IF depth = KEY_SIZE THEN Descent("panic", cur, depth, nodes)
            ELSE IF has_bit(nkey, depth)
                 THEN RemDescend(cur.right, depth + 1, Append(nodes, cur.left), nkey)
                 ELSE RemDescend(cur.left, depth + 1, Append(nodes, cur.right), nkey)
      [] cur.type = "Leaf" ->
            IF nkey # cur.key THEN Descent("return", cur, depth, nodes)
            ELSE IF depth = 0 THEN Descent("return", EmptyNode, depth, nodes)
            ELSE LET n == nodes[depth]
                 IN IF is_leaf(n)
                    THEN LET kept == PopEmpties(SubSeq(nodes, 1, depth - 1))
                         IN Descent("break", n, Len(kept), kept)
                    ELSE Descent("break", EmptyNode, depth, nodes)

\* UrkelTree::remove_child: [st, root]
remove_child(r, nkey) ==
    The({ CASE d.st = "return" -> [st |-> "ok", root |-> d.root]
            [] d.st = "break" ->
                  [st |-> "ok", root |-> Rebuild(d.root, d.nodes, d.depth, nkey)]
            [] OTHER -> [st |-> d.st, root |-> EmptyNode] :
          d \in {RemDescend(r, 0, <<>>, nkey)} })

\* UrkelTree::get_root
get_root(r) == NodeHash(r)

\* -------------------------------------------------------------------- get
\* UrkelTree::get on the tree r over the directory fs: [st, value]
RECURSIVE GetDescend(_, _, _, _)
GetDescend(fs, cur, depth, nkey) ==
    CASE cur.type = "Hash" ->
            The({ IF hn.type \in {"Err", "Panic"} THEN [st |-> "panic", value |-> NoValue]
                  ELSE IF hn.type = "Unknown" THEN [st |-> "unknown", value |-> NoValue]
                  ELSE GetDescend(fs, set_hash(hn, cur.data), depth, nkey) :
                  hn \in {get_node_in(fs, cur.index, cur.pos, is_leaf(cur))} })
      [] cur.type = "Leaf" ->
            IF nkey # cur.key THEN [st |-> "ok", value |-> NoValue]
            ELSE IF cur.value.some THEN [st |-> "ok", value |-> cur.value]
            ELSE LET v == get_value_in(fs, cur.vindex, cur.vpos, cur.vsize)
                 IN IF v.ok THEN [st |-> "ok", value |-> SomeValue(v.v)]
                    ELSE [st |-> "ok", value |-> NoValue]
      [] cur.type = "Internal" ->
            \* has_bit indexes past the 32 bytes of the key
            IF depth >= KEY_SIZE THEN [st |-> "panic", value |-> NoValue]
            ELSE IF has_bit(nkey, depth) THEN GetDescend(fs, cur.right, depth + 1, nkey)
            ELSE GetDescend(fs, cur.left, depth + 1, nkey)
      [] OTHER -> [st |-> "ok", value |-> NoValue]

get_in(r, fs, key) == GetDescend(fs, r, 0, hash(key))

get(key) == get_in(root, files, key)

\* ------------------------------------------------------------------ proofs
NoDigest == [some |-> FALSE, v |-> ZeroDigest]

SomeDigest(d) == [some |-> TRUE, v |-> d]

\* Proof::default
DefaultProof ==
    [st |-> "ok", proof_type |-> "Deadend", node_hashes |-> <<>>,
     key |-> NoDigest, hash |-> NoDigest, value |-> NoValue]

\* the loop of UrkelTree::prove
RECURSIVE ProveDescend(_, _, _, _)
ProveDescend(cur, depth, hashed_key, proof) ==
    CASE cur.type = "Empty" -> proof
      [] cur.type = "Leaf" ->
            LET v == get_value(cur.vindex, cur.vpos, cur.vsize)
            IN IF ~v.ok THEN proof
               ELSE IF hashed_key = cur.key
                    THEN [proof EXCEPT !.proof_type = "Exists", !.value = SomeValue(v.v)]
                    ELSE [proof EXCEPT !.proof_type = "Collision",
                                       !.key = SomeDigest(cur.key),
                                       !.hash = IF cur.value.some
                                                THEN SomeDigest(hash(cur.value.v))
                                                ELSE NoDigest]
      [] cur.type = "Internal" ->
            IF depth = KEY_SIZE THEN [proof EXCEPT !.st = "panic"]
            ELSE IF has_bit(hashed_key, depth)
                 THEN ProveDescend(cur.right, depth + 1, hashed_key,
                          [proof EXCEPT !.node_hashes = Append(@, NodeHash(cur.left))])
                 ELSE ProveDescend(cur.left, depth + 1, hashed_key,
                          [proof EXCEPT !.node_hashes = Append(@, NodeHash(cur.right))])
      [] cur.type = "Hash" ->
            The({ IF hn.type = "Err" THEN [proof EXCEPT !.st = "hang"]
                  ELSE IF hn.type = "Panic" THEN [proof EXCEPT !.st = "panic"]
                  ELSE IF hn.type = "Unknown" THEN [proof EXCEPT !.st = "unknown"]
                  ELSE ProveDescend(set_hash(hn, cur.data), depth, hashed_key, proof) :
                  hn \in {get_node(cur.index, cur.pos, is_leaf(cur))} })

prove(key) == ProveDescend(root, 0, hash(key), DefaultProof)

\* an is_sane that accepts every proof
is_sane_any(proof) == TRUE

\* Proof::is_sane; a Digest is 32 bytes by its type and KEY_SIZE >> 3 = 32
is_sane(proof) ==
    CASE proof.proof_type = "Exists" ->
            ~(proof.key.some \/ proof.hash.some \/ ~proof.value.some
              \/ Len(proof.value.v) > U16_MOD - 1)
      [] proof.proof_type = "Collision" ->
            ~(~proof.key.some \/ ~proof.hash.some \/ proof.value.some
              \/ DIGEST_SIZE # KEY_SIZE \div 8)
      [] OTHER -> FALSE

\* the fold of verify over the sibling hashes, last first
RECURSIVE Fold(_, _, _, _)
Fold(next, hashes, depth, hashed_key) ==
    IF hashes = <<>> THEN next
    ELSE LET n == hashes[Len(hashes)]
             nn == IF has_bit(hashed_key, depth) THEN hash_internal(n, next)
                   ELSE hash_internal(next, n)
         IN Fold(nn, SubSeq(hashes, 1, Len(hashes) - 1),
                 IF depth > 0 THEN depth - 1 ELSE depth, hashed_key)

\* a verify that returns the value of the proof without comparing the folded
\* digest with the root hash
verify_unfolded(proof, root_hash, nkey, overflow_checks) ==
    [st |-> "ok", ok |-> proof.value.some, err |-> "", value |-> proof.value.v]

\* Proof::verify: [st, ok, err, value].  self.depth() - 1 on an empty sibling
\* list overflows usize: a panic in a build with overflow checks, a wrap to
\* usize::MAX (no has_bit is evaluated then) in a build without.
verify(proof, root_hash, nkey, overflow_checks) ==
    LET hashed_key == hash(nkey)
        Fail(e) == [st |-> "ok", ok |-> FALSE, err |-> e, value |-> <<>>]
    IN IF ~is_sane(proof) THEN Fail("Unknown")
       ELSE IF proof.proof_type = "Collision" /\ proof.key.v = hashed_key
       THEN Fail("Same Key")
       ELSE LET leaf == CASE proof.proof_type = "Collision" ->
                                hash_leaf(proof.key.v, proof.hash.v)
                          [] proof.proof_type = "Exists" ->
                                hash_leaf_value(hashed_key, proof.value.v)
                          [] OTHER -> ZeroDigest
            IN IF proof.node_hashes = <<>> /\ overflow_checks
               THEN [st |-> "panic", ok |-> FALSE, err |-> "", value |-> <<>>]
               ELSE LET next == Fold(leaf, proof.node_hashes,
                                     Len(proof.node_hashes) - 1, hashed_key)
                    IN IF next # root_hash THEN Fail("Head Mismatch")
                       ELSE IF proof.value.some
                            THEN [st |-> "ok", ok |-> TRUE, err |-> "",
                                  value |-> proof.value.v]
                            ELSE Fail("Bad Verification")

\* ----------------------------------------------------------------- commit
\* UrkelTree::write_to_store, with Store::write_value and Store::write_node
\* appending to the buffer b at position p: [node, buf, pos]
RECURSIVE write_to_store(_, _, _)
write_to_store(n, b, p) ==
    CASE n.type = "Internal" ->
            The({ The({ LET nn == InternalNode(n.index, n.pos, ZeroDigest, l.node, r.node)
                            encoded == encode(nn)
                        IN IF n.index = 0
                           THEN [node |-> into_hash_node(
                                            set_index_position(nn, meta.root_index, r.pos)),
                                 buf |-> r.buf \o encoded,
                                 pos |-> r.pos + Len(encoded)]
                           ELSE [node |-> into_hash_node(nn), buf |-> r.buf, pos |-> r.pos] :
                        r \in {write_to_store(n.right, l.buf, l.pos)} }) :
                  l \in {write_to_store(n.left, b, p)} })
      [] n.type = "Leaf" ->
            IF n.index = 0 /\ n.value.some
            THEN LET l0 == new_leaf_node(n.key, n.value.v)
                     l1 == set_value_index_position(l0, meta.root_index, p)
                     p1 == p + Len(n.value.v)
                     encoded == encode(l1)
                     l2 == set_index_position(l1, meta.root_index, p1)
                 IN [node |-> into_hash_node(l2),
                     buf |-> b \o n.value.v \o encoded,
                     pos |-> p1 + Len(encoded)]
            ELSE [node |-> into_hash_node(n), buf |-> b, pos |-> p]
      [] OTHER -> [node |-> n, buf |-> b, pos |-> p]

MetaRec(index, p, root_index, root_pos, leaf) ==
    [index |-> index, pos |-> p, root_index |-> root_index, root_pos |-> root_pos,
     is_leaf |-> leaf]

\* Meta::encode
meta_encode(m) ==
    LET flagged_rpos == IF m.is_leaf THEN m.root_pos * 2 + 1
                        ELSE m.root_pos * 2
    IN META_MAGIC \o U16(m.index) \o U32(m.pos) \o U16(m.root_index) \o U32(flagged_rpos)

\* Store::commit after the buffer b was filled up to position p:
\* [file, meta, pos], file being the bytes appended through Store.file
store_commit(b, p, root_index, root_pos, leaf) ==
    LET pad_size == META_ENTRY_SIZE - (p % META_ENTRY_SIZE)
        p1 == p + pad_size
        m == MetaRec(root_index, p1, root_index, root_pos, leaf)
    IN [file |-> b \o Zeros(pad_size) \o meta_encode(m),
        meta |-> m,
        pos |-> p1 + META_ENTRY_SIZE]

\* ------------------------------------------------------------------- open
\* Meta::default
DefaultMeta == MetaRec(1, 0, 1, 0, FALSE)

\* the loop of Meta::open: the slot read is the one SeekFrom::End(-start_pos)
\* reaches
RECURSIVE MetaScan(_, _)
MetaScan(f, start_pos) ==
    LET sp == start_pos - META_ENTRY_SIZE
    IN IF sp <= 0 THEN [st |-> "err", meta |-> DefaultMeta]
       ELSE The({ IF Slice(buffer, 0, 4) = META_MAGIC
                  THEN LET meta_index == ReadU16(buffer, 4)
                           meta_pos == ReadU32(buffer, 6)
                           root_index == ReadU16(buffer, 10)
                           root_pos == ReadU32(buffer, 12)
                       IN IF -1 \in {meta_index, meta_pos, root_index, root_pos}
                          THEN [st |-> "unknown", meta |-> DefaultMeta]
                          ELSE [st |-> "ok",
                                meta |-> MetaRec(meta_index, meta_pos, root_index,
                                                 root_pos, root_pos % 2 = 1)]
                  ELSE MetaScan(f, sp) :
                  buffer \in {ReadCells(f, Len(f) - sp, META_ENTRY_SIZE)} })

\* Meta::open(dir, file_id)
meta_open(fs, file_id) ==
    LET file_size == Len(fs[file_id])
    IN IF file_size = 0
       THEN [st |-> "ok", meta |-> MetaRec(file_id, 0, file_id, 0, FALSE)]
       ELSE MetaScan(fs[file_id], file_size - (file_size % META_ENTRY_SIZE))

\* load_log_files: the indices of the files whose names are valid
load_log_files(fs) == {i \in DOMAIN fs : i > 0}

SetMax(S) == CHOOSE x \in S : \A y \in S : y <= x

\* Store::open on the directory fs: [st, files, meta, pos, handle]
store_open(fs) ==
    The({ LET h == m.meta.root_index
              start_pos == IF m.meta.pos = 0 THEN 0
                           ELSE m.meta.pos + META_ENTRY_SIZE
          IN [st |-> IF m.st = "err" THEN "panic" ELSE m.st,
              files |-> [i \in DOMAIN fs \cup {h} |->
                            IF i \in DOMAIN fs THEN fs[i] ELSE <<>>],
              meta |-> m.meta,
              pos |-> start_pos,
              handle |-> h] :
          m \in {IF load_log_files(fs) = {} THEN [st |-> "ok", meta |-> DefaultMeta]
                 ELSE meta_open(fs, SetMax(load_log_files(fs)))} })

\* Store::get_root_node
get_root_node(fs, m) ==
    The({ IF nn.type \in {"Leaf", "Internal"}
          THEN into_hash_node(set_index_position(nn, m.root_index, m.root_pos))
          ELSE nn :
          nn \in {get_node_in(fs, m.root_index, m.root_pos, m.is_leaf)} })

\* UrkelTree::new on the directory fs: [st, root, files, meta, pos, handle]
tree_new(fs) ==
    The({ The({ [st |-> IF s.st # "ok" THEN s.st
                        ELSE IF r.type = "Panic" THEN "panic"
                        ELSE IF r.type = "Unknown" THEN "unknown"
                        ELSE "ok",
                 root |-> IF s.st = "ok" /\ r.type = "Hash" THEN r ELSE EmptyNode,
                 files |-> s.files, meta |-> s.meta, pos |-> s.pos,
                 handle |-> s.handle] :
                r \in {get_root_node(s.files, s.meta)} }) :
          s \in {store_open(fs)} })

\* ---------------------------------------------------------------- actions
NoOut == [op |-> "none"]

Absent == [k \in KeyNames |-> NoValue]

LastRec(op, key, value, before, had) ==
    [op |-> op, key |-> key, value |-> value, before |-> before, had |-> had]

OpenRec == LastRec("open", <<>>, NoValue, ZeroDigest, NoValue)

\* UrkelTree::new("data") on a directory that does not exist yet
Init ==
    \E t \in {tree_new(<<>>)} :
       /\ root = t.root
       /\ files = t.files
       /\ meta = t.meta
       /\ pos = t.pos
       /\ buf = <<>>
       /\ handle = t.handle
       /\ status = t.st
       /\ model = Absent
       /\ last = OpenRec
       /\ phase = "fresh"
       /\ durable = [some |-> FALSE, root |-> ZeroDigest, model |-> Absent,
                     gets |-> Absent, prev |-> ZeroDigest, appended |-> 0,
                     metas |-> {}, handed |-> [index |-> -1, pos |-> 0],
                     coords |-> {}, nops |-> 0]
       /\ nops = 0
       /\ ncommits = 0
       /\ nocommit = [st |-> t.st, root |-> t.root]
       /\ out = NoOut

\* The Hash arm of add_child, get, remove_child and prove: the node read from
\* the store at the Hash node's coordinates, given the Hash node's digest
resolve(h) == set_hash(get_node(h.index, h.pos, is_leaf(h)), h.data)

\* the Hash nodes of the tree n
RECURSIVE HashNodes(_)
HashNodes(n) ==
    CASE n.type = "Hash" -> {n}
      [] n.type = "Internal" -> HashNodes(n.left) \cup HashNodes(n.right)
      [] OTHER -> {}

\* The root of the never-committed tree as add_child and remove_child see it
\* after their first step: its only Hash node is the root UrkelTree::new
\* loaded from the empty directory, which they resolve from the empty file
Unhashed(n) ==
    IF n.type = "Hash"
    THEN set_hash(get_node_in(tree_new(<<>>).files, n.index, n.pos, is_leaf(n)), n.data)
    ELSE n

\* self.root = the tree a call returned, or the end of the process
SetRoot(r) ==
    /\ root' = r.root
    /\ status' = r.st

\* UrkelTree::insert
Insert(k, v) ==
    /\ status = "ok"
    /\ out = NoOut
    /\ nops < MaxOps
    /\ \E r \in {add_child(root, hash(k), v)} : SetRoot(r)
    /\ nocommit' = IF nocommit.st = "ok"
                   THEN add_child(Unhashed(nocommit.root), hash(k), v)
                   ELSE nocommit
    /\ model' = [model EXCEPT ![k] = SomeValue(v)]
    /\ last' = LastRec("insert", k, SomeValue(v), get_root(root), model[k])
    /\ phase' = IF phase \in {"fresh", "ins"} /\ ~model[k].some THEN "ins" ELSE "other"
    /\ nops' = nops + 1
    /\ UNCHANGED <<files, meta, pos, buf, handle, durable, ncommits, out>>

\* UrkelTree::remove
Remove(k) ==
    /\ status = "ok"
    /\ out = NoOut
    /\ nops < MaxOps
    /\ \E r \in {remove_child(root, hash(k))} : SetRoot(r)
    /\ nocommit' = IF nocommit.st = "ok"
                   THEN remove_child(Unhashed(nocommit.root), hash(k))
                   ELSE nocommit
    /\ model' = [model EXCEPT ![k] = NoValue]
    /\ last' = LastRec("remove", k, NoValue, get_root(root), model[k])
    /\ phase' = IF phase \in {"ins", "rem"} /\ model[k].some THEN "rem" ELSE "other"
    /\ nops' = nops + 1
    /\ UNCHANGED <<files, meta, pos, buf, handle, durable, ncommits, out>>

\* UrkelTree::commit on the tree r, the buffer b at position p and the
\* directory fs: [root, files, meta, pos, written], written being the number
\* of bytes write_value and write_node put into the buffer
tree_commit(r, b, p, fs) ==
    The({ The({ [root |-> w.node,
                 files |-> [fs EXCEPT ![handle] = @ \o c.file],
                 meta |-> c.meta,
                 pos |-> c.pos,
                 written |-> w.pos - p] :
                c \in {store_commit(w.buf, w.pos, get_index_position(w.node)[1],
                                    get_index_position(w.node)[2], is_leaf(w.node))} }) :
          w \in {write_to_store(r, b, p)} })

\* the coordinates under which the tree n over the directory fs holds its
\* leaves: [key, index, pos], a Hash node standing for the node the store
\* gives at its coordinates
RECURSIVE LeafCoords(_, _)
LeafCoords(fs, n) ==
    CASE n.type = "Hash" ->
            The({ CASE hn.type = "Leaf" ->
                          {[key |-> hn.key, index |-> n.index, pos |-> n.pos]}
                    [] hn.type = "Internal" ->
                          LeafCoords(fs, hn.left) \cup LeafCoords(fs, hn.right)
                    [] OTHER -> {} :
                  hn \in {get_node_in(fs, n.index, n.pos, is_leaf(n))} })
      [] n.type = "Internal" -> LeafCoords(fs, n.left) \cup LeafCoords(fs, n.right)
      [] n.type = "Leaf" -> {[key |-> n.key, index |-> n.index, pos |-> n.pos]}
      [] OTHER -> {}

\* the tree and the store after a commit, and what a caller who reopens the
\* directory expects from then on
Committed(t) ==
    /\ root' = t.root
    /\ files' = t.files
    /\ meta' = t.meta
    /\ pos' = t.pos
    /\ durable' = [some |-> TRUE, root |-> get_root(t.root), model |-> model,
                   gets |-> [k \in KeyNames |-> get_in(t.root, t.files, k).value],
                   prev |-> durable.root,
                   appended |-> Len(t.files[handle]) - Len(files[handle]),
                   metas |-> durable.metas \cup {meta_encode(t.meta)},
                   handed |-> IF t.written > 0
                              THEN [index |-> handle,
                                    pos |-> get_index_position(t.root)[2]]
                              ELSE durable.handed,
                   coords |-> LeafCoords(t.files, t.root),
                   nops |-> nops]

\* UrkelTree::commit, as one of at most n commits
CommitUpTo(n) ==
    /\ status = "ok"
    /\ out = NoOut
    /\ ncommits < n
    /\ \E t \in {tree_commit(root, buf, pos, files)} : Committed(t)
    /\ buf' = <<>>
    /\ last' = LastRec("commit", <<>>, NoValue, get_root(root), NoValue)
    /\ phase' = "other"
    /\ ncommits' = ncommits + 1
    /\ UNCHANGED <<handle, status, model, nops, nocommit, out>>

\* UrkelTree::commit
Commit == CommitUpTo(MaxCommits)

\* a get that keeps the node it loaded for a Hash root in place of the root
GetKeepingNode(k) ==
    /\ status = "ok"
    /\ out = NoOut
    /\ \E g \in {get(k)} :
          /\ out' = [op |-> "get", key |-> k, st |-> g.st, value |-> g.value]
          /\ status' = g.st
    /\ root' = IF root.type = "Hash"
               THEN The({ IF hn.type \in {"Leaf", "Internal"}
                          THEN set_hash(hn, root.data) ELSE root :
                          hn \in {get_node(root.index, root.pos, is_leaf(root))} })
               ELSE root
    /\ UNCHANGED <<files, meta, pos, buf, handle, model, last, phase, durable,
                   nops, ncommits, nocommit>>

\* UrkelTree::get
Get(k) ==
    /\ status = "ok"
    /\ out = NoOut
    /\ \E g \in {get(k)} :
          /\ out' = [op |-> "get", key |-> k, st |-> g.st, value |-> g.value]
          /\ status' = g.st
    /\ UNCHANGED <<root, files, meta, pos, buf, handle, model, last, phase, durable,
                   nops, ncommits, nocommit>>

\* UrkelTree::get where the read of the value from the store may fail:
\* value_read is FALSE when Store::get_value returns Err for a value that
\* lies in the file (an io error of the open, the seek or the read)
RECURSIVE GetDescendIo(_, _, _, _)
GetDescendIo(cur, depth, nkey, value_read) ==
    CASE cur.type = "Hash" ->
            The({ IF hn.type \in {"Err", "Panic"} THEN [st |-> "panic", value |-> NoValue]
                  ELSE IF hn.type = "Unknown" THEN [st |-> "unknown", value |-> NoValue]
                  ELSE GetDescendIo(set_hash(hn, cur.data), depth, nkey, value_read) :
                  hn \in {get_node(cur.index, cur.pos, is_leaf(cur))} })
      [] cur.type = "Leaf" ->
            IF nkey # cur.key THEN [st |-> "ok", value |-> NoValue]
            ELSE IF cur.value.some THEN [st |-> "ok", value |-> cur.value]
            ELSE LET v == get_value(cur.vindex, cur.vpos, cur.vsize)
                 IN IF v.ok /\ value_read THEN [st |-> "ok", value |-> SomeValue(v.v)]
                    ELSE [st |-> "ok", value |-> NoValue]
      [] cur.type = "Internal" ->
            IF depth >= KEY_SIZE THEN [st |-> "panic", value |-> NoValue]
            ELSE IF has_bit(nkey, depth)
                 THEN GetDescendIo(cur.right, depth + 1, nkey, value_read)
                 ELSE GetDescendIo(cur.left, depth + 1, nkey, value_read)
      [] OTHER -> [st |-> "ok", value |-> NoValue]

GetIo(k, value_read) ==
    /\ status = "ok"
    /\ out = NoOut
    /\ \E g \in {GetDescendIo(root, 0, hash(k), value_read)} :
          /\ out' = [op |-> "get_io", key |-> k, st |-> g.st, value |-> g.value,
                     value_read |-> value_read]
          /\ status' = g.st
    /\ UNCHANGED <<root, files, meta, pos, buf, handle, model, last, phase, durable,
                   nops, ncommits, nocommit>>

\* the nodes the tree n holds in memory
RECURSIVE Nodes(_)
Nodes(n) ==
    IF n.type = "Internal" THEN {n} \cup Nodes(n.left) \cup Nodes(n.right) ELSE {n}

\* Node::encode on a node, as test_node_codec calls it on Node::Empty; a
\* Leaf handed to it holds its value
Encode(n) ==
    /\ status = "ok"
    /\ out = NoOut
    /\ IF n.type = "Leaf" THEN n.value.some ELSE TRUE
    /\ out' = [op |-> "encode", node |-> n, result |-> encode_result(n)]
    /\ UNCHANGED <<root, files, meta, pos, buf, handle, status, model, last, phase,
                   durable, nops, ncommits, nocommit>>

\* UrkelTree::prove, then Proof::verify against the tree's own root hash in
\* a build with overflow checks and in one without
Prove(k) ==
    /\ status = "ok"
    /\ out = NoOut
    /\ \E p \in {prove(k)} :
          /\ out' = [op |-> "prove", key |-> k, st |-> p.st, proof |-> p,
                     checked |-> verify(p, get_root(root), k, TRUE),
                     unchecked |-> verify(p, get_root(root), k, FALSE)]
          /\ status' = p.st
    /\ UNCHANGED <<root, files, meta, pos, buf, handle, model, last, phase, durable,
                   nops, ncommits, nocommit>>

\* the tree and the store UrkelTree::new returned
Opened(t) ==
    /\ root' = t.root
    /\ files' = t.files
    /\ meta' = t.meta
    /\ pos' = t.pos
    /\ handle' = t.handle
    /\ status' = t.st
    /\ nocommit' = [st |-> "closed", root |-> EmptyNode]

\* The tree is dropped (or its process has ended) and UrkelTree::new opens
\* the same directory again
Reopen ==
    /\ out = NoOut
    /\ last.op # "open"
    /\ \E t \in {tree_new(files)} : Opened(t)
    /\ buf' = <<>>
    /\ model' = durable.model
    /\ last' = OpenRec
    /\ phase' = "other"
    /\ UNCHANGED <<durable, nops, ncommits, out>>

\* The process ends right after a commit with the last k bytes that commit
\* appended to the active file lost, and UrkelTree::new opens the directory
Crash(k) ==
    /\ out = NoOut
    /\ last.op = "commit"
    /\ nops <= MaxCrashOps
    /\ k < durable.appended
    /\ \E t \in {tree_new([files EXCEPT ![handle] = SubSeq(@, 1, Len(@) - k)])} :
          Opened(t)
    /\ buf' = <<>>
    /\ model' = durable.model
    /\ last' = OpenRec
    /\ phase' = "other"
    /\ out' = [op |-> "crash", k |-> k]
    /\ UNCHANGED <<durable, nops, ncommits>>

\* the u16 and u32 values the leaves of the codec test take in vindex, vpos
\* and vsize: the ends of the ranges and the values around a carry
LeafIndexes == {0, 1, 32767, 32768, 65535}
LeafPositions == {0, 1, 500, 65536, 2147483647}
LeafSizes == {0, 7, 255, 256, 65535}

\* test_node_codec on a leaf: Node::encode, then Node::decode(bits, true)
NodeCodec(key, value, vindex, vpos, vsize) ==
    /\ out = NoOut
    /\ \E leaf \in {LeafNode(1, 235, hash_leaf_value(hash(key), value), hash(key),
                              SomeValue(value), vindex, vpos, vsize)} :
          \E bits \in {encode(leaf)} :
             out' = [op |-> "codec", node |-> leaf, bits |-> bits,
                     back |-> decode(bits, TRUE)]
    /\ UNCHANGED <<root, files, meta, pos, buf, handle, status, model, last, phase,
                   durable, nops, ncommits, nocommit>>

\* Children of the Internal handed to the codec: Empty, Hash nodes with a
\* file index of 0, 1 and 32768, a zero and a non-zero hash, either tag,
\* the stored leaf of test_node_codec and a leaf that was never stored
CodecIndexes == {0, 1, 32768}
CodecPositions == {0, 235}

CodecChildren ==
    {EmptyNode}
    \cup {HashNode(i, p, d, f) :
            i \in CodecIndexes, p \in CodecPositions,
            d \in {ZeroDigest, hash_leaf_value(hash(Bytes(<<KeyBytes[1]>>)),
                                               Bytes(<<118>>))},
            f \in {0, 1}}
    \cup {set_index_position(new_leaf_node(hash(k), Bytes(<<118>>)), i, 235 * i) :
            k \in KeyNames, i \in {0, 1}}

\* test_node_codec on an Internal: Node::encode, then Node::decode(bits, false)
InternalCodec(left, right) ==
    /\ out = NoOut
    /\ \E internal \in {InternalNode(0, 0, ZeroDigest, left, right)} :
          \E bits \in {encode(internal)} :
             out' = [op |-> "codec", node |-> internal, bits |-> bits,
                     back |-> decode(bits, FALSE)]
    /\ UNCHANGED <<root, files, meta, pos, buf, handle, status, model, last, phase,
                   durable, nops, ncommits, nocommit>>

\* the proofs a caller can hand to verify: the fields key, hash and value
\* are public, the sibling hashes come from push
ProofDigests ==
    {ZeroDigest} \cup {hash_leaf_value(hash(k), v) : k \in KeyNames, v \in Values}

Proofs ==
    [st : {"ok"},
     proof_type : {"Exists", "Collision", "Deadend"},
     node_hashes : {<<>>, <<ZeroDigest>>},
     key : {NoDigest} \cup {SomeDigest(hash(k)) : k \in KeyNames},
     hash : {NoDigest} \cup {SomeDigest(hash(v)) : v \in Values},
     value : {NoValue} \cup {SomeValue(v) : v \in Values}]

RootHashes ==
    ProofDigests
    \cup {hash_internal(ZeroDigest, d) : d \in ProofDigests}
    \cup {hash_internal(d, ZeroDigest) : d \in ProofDigests}

\* Proof::verify on a proof, in a build with overflow checks and in one
\* without
Verify(proof, root_hash, k) ==
    /\ out = NoOut
    /\ out' = [op |-> "verify", key |-> k, proof |-> proof, root_hash |-> root_hash,
               checked |-> verify(proof, root_hash, k, TRUE),
               unchecked |-> verify(proof, root_hash, k, FALSE)]
    /\ UNCHANGED <<root, files, meta, pos, buf, handle, status, model, last, phase,
                   durable, nops, ncommits, nocommit>>

\* values a caller can choose so that the bytes of a meta record lie in the
\* file at a 16-byte boundary: 8 bytes that bring the next value to offset 48,
\* and 16 bytes that read as the meta record of a commit that left its root
\* at offset 0 and its meta at offset 48
FillerValue == Bytes(<<0, 0, 0, 0, 0, 0, 0, 0>>)

ForgedValue == meta_encode(MetaRec(1, 48, 1, 0, FALSE))

ForgedValues == {FillerValue, ForgedValue}

\* one tree in memory, never committed
NextMem ==
    \/ \E k \in KeyNames, v \in Values : Insert(k, v)
    \/ \E k \in KeyNames : Remove(k)
    \/ \E k \in KeyNames : Get(k)
    \/ \E k \in KeyNames : Prove(k)

SpecMem == Init /\ [][NextMem]_vars

\* one tree from open to drop
Next ==
    \/ \E k \in KeyNames, v \in Values : Insert(k, v)
    \/ \E k \in KeyNames : Remove(k)
    \/ Commit
    \/ \E k \in KeyNames : Get(k)
    \/ \E k \in KeyNames : Prove(k)

Spec == Init /\ [][Next]_vars

\* a directory over successive trees
NextReopen ==
    \/ \E k \in KeyNames, v \in Values : Insert(k, v)
    \/ \E k \in KeyNames : Remove(k)
    \/ Commit
    \/ \E k \in KeyNames : Get(k)
    \/ \E k \in KeyNames : Prove(k)
    \/ Reopen

SpecReopen == Init /\ [][NextReopen]_vars

\* a tree whose process may end during or right after a commit
NextCrash ==
    \/ \E k \in KeyNames, v \in Values : Insert(k, v)
    \/ \E k \in KeyNames : Remove(k)
    \/ Commit
    \/ \E k \in 0..(durable.appended - 1) : Crash(k)

SpecCrash == Init /\ [][NextCrash]_vars

\* the same, the caller storing values that hold the bytes of a meta record
NextForged ==
    \/ \E k \in KeyNames, v \in ForgedValues : Insert(k, v)
    \/ Commit
    \/ \E k \in 0..(durable.appended - 1) : Crash(k)

SpecForged == Init /\ [][NextForged]_vars

\* a directory over successive trees that insert and commit
NextAppend ==
    \/ \E k \in KeyNames, v \in Values : Insert(k, v)
    \/ CommitUpTo(MaxAppendCommits)
    \/ Reopen

SpecAppend == Init /\ [][NextAppend]_vars

\* one tree from open to drop, the reads of values failing or not
NextIo ==
    \/ \E k \in KeyNames, v \in Values : Insert(k, v)
    \/ \E k \in KeyNames : Remove(k)
    \/ Commit
    \/ \E k \in KeyNames, value_read \in BOOLEAN : GetIo(k, value_read)

SpecIo == Init /\ [][NextIo]_vars

\* one tree from open to drop, and Node::encode on its nodes and on Empty
NextEncode ==
    \/ \E k \in KeyNames, v \in Values : Insert(k, v)
    \/ \E k \in KeyNames : Remove(k)
    \/ Commit
    \/ \E n \in Nodes(root) \cup {EmptyNode} : Encode(n)

SpecEncode == Init /\ [][NextEncode]_vars

\* the codec test over leaves
NextCodec ==
    /\ out = NoOut
    /\ \E key \in KeyNames, value \in Values, vindex \in LeafIndexes,
          vpos \in LeafPositions, vsize \in LeafSizes :
             NodeCodec(key, value, vindex, vpos, vsize)

SpecCodec == Init /\ [][NextCodec]_vars

\* the codec test over Internals
NextInternalCodec ==
    /\ out = NoOut
    /\ \E left \in CodecChildren, right \in CodecChildren :
          InternalCodec(left, right)

SpecInternalCodec == Init /\ [][NextInternalCodec]_vars

\* verify over the proofs a caller can build
NextVerify ==
    /\ out = NoOut
    /\ \E proof \in Proofs, root_hash \in RootHashes, k \in KeyNames :
          Verify(proof, root_hash, k)

SpecVerify == Init /\ [][NextVerify]_vars

\* ------------------------------------------------------------------ claims
\* C1: after any sequence of insert, remove and commit, get(k) returns the
\* value last inserted under k when k was inserted and not removed since,
\* and absent otherwise, for every key, before and after a commit.
C1_GetReturnsLastValue ==
    out.op = "get" => out.st = "ok" /\ out.value = model[out.key]

\* C2: after a commit, a tree opened on the same directory has the root
\* hash of the committed tree, and get(k) returns the committed value of
\* every key, for committed trees of every size and after several commits.
C2_ReopenReproducesCommit ==
    (last.op = "open" /\ durable.some) =>
        /\ status = "ok"
        /\ get_root(root) = durable.root
        /\ (out.op = "get" => out.st = "ok" /\ out.value = durable.model[out.key])

\* the keys in one fixed order
KeySeq == [i \in 1..NumKeys |-> Bytes(<<KeyBytes[i]>>)]

\* the tree r after the pairs of m under the keys KeySeq[i..] were inserted
\* in that order
RECURSIVE InsertInOrder(_, _, _)
InsertInOrder(r, m, i) ==
    IF i > NumKeys THEN r
    ELSE IF m[KeySeq[i]].some
         THEN InsertInOrder(add_child(r, hash(KeySeq[i]), m[KeySeq[i]].v).root, m, i + 1)
         ELSE InsertInOrder(r, m, i + 1)

\* C3: two trees opened empty that receive the same set of insertions in
\* different orders have equal root hashes: whatever the order in which a
\* tree received its pairs, its root hash is that of the tree that received
\* them in the order of KeySeq.
C3_RootIndependentOfOrder ==
    phase = "ins" =>
        /\ status = "ok"
        /\ get_root(root) = get_root(InsertInOrder(tree_new(<<>>).root, model, 1))

\* every key is present and the first key of KeySeq was inserted last
C3_Witness ==
    /\ phase = "ins"
    /\ \A k \in KeyNames : model[k].some
    /\ last.op = "insert"
    /\ last.key = KeySeq[1]

\* what get returns for every key, on the tree r over the directory fs
GetAll(r, fs) == [k \in KeyNames |-> get_in(r, fs, k)]

\* C4: an insert of a pair that is already present with the identical value
\* leaves the whole tree unchanged: the root hash and get(k') for every key
\* k' are the same after the insert as before, at any depth of the leaf.
C4_IdenticalInsertUnchanged ==
    [][(last'.op = "insert" /\ nops' = nops + 1 /\ last'.had = last'.value) =>
            /\ status' = "ok"
            /\ get_root(root') = get_root(root)
            /\ GetAll(root', files') = GetAll(root, files)]_vars

\* C5: remove(k) of a key that is not in the tree leaves the tree unchanged:
\* the root hash and get(k') for every key k' are the same after the remove
\* as before, whether the descent ends at an Empty node or at a Leaf of
\* another key, at any depth.
C5_RemoveAbsentUnchanged ==
    [][(last'.op = "remove" /\ nops' = nops + 1 /\ ~last'.had.some
        /\ ~get_in(root, files, last'.key).value.some) =>
            /\ status' = "ok"
            /\ get_root(root') = get_root(root)
            /\ GetAll(root', files') = GetAll(root, files)]_vars

\* C6: for every key k present with value v, prove(k) returns a proof of
\* type Exists and its verify against the root hash returns v, for
\* uncommitted, committed and reopened trees.
C6_ProvePresentKey ==
    (out.op = "prove" /\ model[out.key].some) =>
        /\ out.st = "ok"
        /\ out.proof.proof_type = "Exists"
        /\ out.checked.st = "ok" /\ out.checked.ok
        /\ out.checked.value = model[out.key].v
        /\ out.unchecked.ok
        /\ out.unchecked.value = model[out.key].v

\* C7: for every key absent from the tree, prove returns a proof of type
\* Collision or Deadend, never Exists, and verifying that proof against the
\* tree's root hash never returns a value.
C7_ProveAbsentKey ==
    (out.op = "prove" /\ ~model[out.key].some) =>
        /\ out.st = "ok"
        /\ out.proof.proof_type \in {"Collision", "Deadend"}
        /\ ~out.checked.ok
        /\ ~out.unchecked.ok

\* C8: after n >= 1 insertions of distinct keys into a freshly opened empty
\* tree followed by the removal of every inserted key, in any order, the root
\* hash is the all-zero digest and get returns absent for every key.
C8_RemoveAllGivesZeroRoot ==
    (phase = "rem" /\ \A k \in KeyNames : ~model[k].some) =>
        /\ status = "ok"
        /\ get_root(root) = ZeroDigest
        /\ \A k \in KeyNames : get_in(root, files, k) = [st |-> "ok", value |-> NoValue]

\* C9: a tree that undergoes remove(k) and then insert(k, v) has the root
\* hash of a tree that ends with the same key-to-value mapping without k ever
\* having been removed (one built from a fresh tree by insertions only).
C9_RemoveThenInsertSameRoot ==
    [][(last.op = "remove" /\ last'.op = "insert" /\ nops' = nops + 1
        /\ last'.key = last.key) =>
            /\ status' = "ok"
            /\ get_root(root') =
                   get_root(InsertInOrder(tree_new(<<>>).root, model', 1))]_vars

\* C10: insert(k, v) followed by remove(k), applied to a tree that does not
\* contain k, restores the root hash the tree had before the insert.
C10_InsertThenRemoveRestoresRoot ==
    [][(last.op = "insert" /\ ~last.had.some /\ last'.op = "remove"
        /\ nops' = nops + 1 /\ last'.key = last.key) =>
            /\ status' = "ok"
            /\ get_root(root') = last.before]_vars

\* C11: opening a tree on a directory that has no log files, or whose active
\* file is empty, yields the empty tree: the root is Empty, the root hash is
\* the all-zero digest and get returns absent for every key.
C11_OpenEmptyGivesEmptyTree ==
    (last.op = "open" /\ \A i \in DOMAIN files : files[i] = <<>>) =>
        /\ status = "ok"
        /\ root = EmptyNode
        /\ get_root(root) = ZeroDigest
        /\ \A k \in KeyNames : get_in(root, files, k) = [st |-> "ok", value |-> NoValue]

\* C12: after a commit, losing the last k bytes of the active file, for every
\* k from 0 up to but excluding the number of bytes that commit appended,
\* leaves a store that opens successfully, to the root just committed or to
\* the root of the previous commit (the empty tree when there was none).
C12_CrashRecoversACommittedRoot ==
    out.op = "crash" =>
        /\ status = "ok"
        /\ get_root(root) \in {durable.root, durable.prev}

\* C13: changes made by insert and remove are not visible to recovery until
\* commit: when a tree with uncommitted changes is dropped and the directory
\* opened again, the files are unchanged and the new tree has the root hash
\* and the get results of the last committed state (the empty tree when
\* nothing was committed).
C13_UncommittedChangesDiscarded ==
    [][(last.op \in {"insert", "remove"} /\ last'.op = "open") =>
            /\ files' = files
            /\ status' = "ok"
            /\ get_root(root') = durable.root
            /\ \A k \in KeyNames :
                  get_in(root', files', k) = [st |-> "ok", value |-> durable.gets[k]]]_vars

\* C14: when several commits have been made to the same active file, opening
\* the store selects the meta record written by the last commit (the last 16
\* bytes of the file), so the loaded root is the root of the latest commit.
C14_OpenSelectsLastMeta ==
    (last.op = "open" /\ ncommits >= 2 /\ DOMAIN files = {1}) =>
        /\ status = "ok"
        /\ meta.pos = Len(files[1]) - META_ENTRY_SIZE
        /\ get_root(root) = durable.root

\* the file f holds the meta magic at the start of one of its 16-byte slots
HasMetaSlot(f) ==
    \E o \in 0..(Len(f) \div META_ENTRY_SIZE - 1) :
        Slice(f, o * META_ENTRY_SIZE, 4) = META_MAGIC

\* C15: opening a store whose active file is not empty but holds the meta
\* magic in none of its 16-byte-aligned slots fails, and the caller of open
\* receives the failure as the MetaRootNotFound error value, not a tree.
C15_CorruptFileOpenReturnsError ==
    (/\ out.op = "crash"
     /\ files[SetMax(load_log_files(files))] # <<>>
     /\ ~HasMetaSlot(files[SetMax(load_log_files(files))])) =>
        status = "err"

\* C16: for every Leaf with vindex in the 16-bit range, vpos in the 32-bit
\* range and vsize in the 16-bit range, decode(encode(leaf), true) is a Leaf
\* with the same key digest, vindex, vpos and vsize, and the encoding is
\* exactly 40 bytes.
C16_LeafCodecRoundTrip ==
    out.op = "codec" =>
        /\ Len(out.bits) = LEAF_NODE_SIZE
        /\ out.back.type = "Leaf"
        /\ out.back.key = out.node.key
        /\ out.back.vindex = out.node.vindex
        /\ out.back.vpos = out.node.vpos
        /\ out.back.vsize = out.node.vsize

\* the proofs C17 is about
Rejectable(p, k) ==
    \/ p.proof_type = "Deadend"
    \/ p.proof_type = "Collision" /\ p.key = SomeDigest(hash(k))
    \/ p.proof_type = "Exists" /\ (p.key.some \/ p.hash.some \/ ~p.value.some)
    \/ p.proof_type = "Collision" /\ (~p.key.some \/ ~p.hash.some \/ p.value.some)

\* C17: verify rejects, with an error and without returning a value, every
\* Deadend proof, every Collision proof whose key is the digest of the
\* queried key, every Exists proof that carries a key or a hash or lacks a
\* value, and every Collision proof that lacks a key or a hash or carries a
\* value.
C17_VerifyRejectsMalformedProofs ==
    (out.op = "verify" /\ Rejectable(out.proof, out.key)) =>
        \A r \in {out.checked, out.unchecked} :
            r.st = "ok" /\ ~r.ok /\ r.err \in {"Unknown", "Same Key"}

\* a well-formed Collision proof for the very key that is queried, with
\* sibling hashes that fold to the root hash given
C17_Witness ==
    /\ out.op = "verify"
    /\ out.proof.proof_type = "Collision"
    /\ out.proof.key = SomeDigest(hash(out.key))
    /\ out.proof.hash.some
    /\ ~out.proof.value.some
    /\ out.checked.err = "Same Key"
    /\ out.proof.node_hashes # <<>>
    /\ out.root_hash = Fold(hash_leaf(out.proof.key.v, out.proof.hash.v),
                            out.proof.node_hashes, Len(out.proof.node_hashes) - 1,
                            hash(out.key))

\* C18: commits are observationally transparent: a sequence of insertions
\* and removals with commits interleaved ends like the same sequence with no
\* commit, with the same root hash and the same result of get for every key.
C18_CommitsAreTransparent ==
    (out = NoOut /\ nocommit.st # "closed") =>
        /\ status = nocommit.st
        /\ status = "ok" =>
              /\ get_root(root) = get_root(nocommit.root)
              /\ \A k \in KeyNames :
                    get_in(root, files, k) = get_in(Unhashed(nocommit.root), files, k)

\* C19: resolving a Hash node yields a Leaf or Internal whose storage
\* coordinates (index, pos) are those of the Hash node and whose hash is the
\* Hash node's digest, so that the next commit treats it as persisted.
C19_ResolveKeepsCoordinates ==
    (status = "ok" /\ last.op = "commit" /\ nops > 0) =>
        \A h \in HashNodes(root) :
            /\ resolve(h).type \in {"Leaf", "Internal"}
            /\ get_index_position(resolve(h)) = <<h.index, h.pos>>
            /\ NodeHash(resolve(h)) = h.data

\* The file holds at the coordinates of the Hash node h the encoding of a
\* node of the kind h flags, with the hash h records, and so do the files for
\* every child descriptor below it (each written before its parent).
RECURSIVE Persisted(_)
Persisted(h) ==
    /\ h.index # 0
    /\ \E n \in {get_node(h.index, h.pos, is_leaf(h))} :
          CASE n.type = "Leaf" ->
                  \E v \in {get_value(n.vindex, n.vpos, n.vsize)} :
                      v.ok /\ hash_leaf_value(n.key, v.v) = h.data
            [] n.type = "Internal" ->
                  /\ hash_internal(NodeHash(n.left), NodeHash(n.right)) = h.data
                  /\ \A c \in {n.left, n.right} :
                        c.type = "Hash" => c.pos < h.pos /\ Persisted(c)
            [] OTHER -> FALSE

\* C20: after every commit, every Hash node of the tree in memory and every
\* child descriptor of every Internal written to the file has coordinates
\* with index # 0 at which the file holds the encoding of a node of the
\* flagged kind whose hash is the recorded digest.
C20_HashNodesArePersisted ==
    (status = "ok" /\ last.op = "commit") =>
        \A h \in HashNodes(root) : Persisted(h)

\* no Internal of the tree n has (Leaf, Empty), (Empty, Leaf) or (Empty, Empty)
\* children, a Hash node flagged as a leaf counting as a Leaf
RECURSIVE Canonical(_)
Canonical(n) ==
    n.type = "Internal" =>
        /\ ~((is_leaf(n.left) \/ is_empty(n.left)) /\ is_empty(n.right))
        /\ ~(is_empty(n.left) /\ is_leaf(n.right))
        /\ Canonical(n.left)
        /\ Canonical(n.right)

\* C21: every tree reached by a sequence of insertions and removals from a
\* freshly opened empty tree is in canonical form: no Internal has (Leaf,
\* Empty), (Empty, Leaf) or (Empty, Empty) children, so that a leaf whose
\* sibling was removed has bubbled up past every Empty sibling.
C21_CanonicalForm ==
    status = "ok" => Canonical(root)

\* the leaves a descent from the node n can reach, n being at the end of the
\* path of bits path: [key, path, data], a Hash node standing for the node
\* the store gives at its coordinates
RECURSIVE Leaves(_, _)
Leaves(n, path) ==
    CASE n.type = "Leaf" -> {[key |-> n.key, path |-> path, data |-> n.data]}
      [] n.type = "Internal" ->
            Leaves(n.left, Append(path, FALSE)) \cup Leaves(n.right, Append(path, TRUE))
      [] n.type = "Hash" ->
            The({ IF hn.type \in {"Leaf", "Internal"}
                  THEN Leaves(set_hash(hn, n.data), path)
                  ELSE {} :
                  hn \in {get_node(n.index, n.pos, is_leaf(n))} })
      [] OTHER -> {}

\* the leaf l lies on the path its own key gives
OnOwnPath(l) == \A d \in 1..Len(l.path) : l.path[d] = has_bit(l.key, d - 1)

\* C22: in every tree reached by insertions, removals and commits, every
\* reachable leaf at depth D lies on the path given by bits 0..D-1 of its own
\* key, and no two reachable leaves hold the same key; an insert of a new
\* value under a key that a reachable leaf holds replaces that leaf where it
\* is and leaves every other leaf as it was.
C22_LeavesOnOwnPath ==
    /\ [](status = "ok" =>
            \E ls \in {Leaves(root, <<>>)} :
                /\ \A l \in ls : OnOwnPath(l)
                /\ \A l1, l2 \in ls : l1.key = l2.key => l1 = l2)
    /\ [][(last'.op = "insert" /\ nops' = nops + 1) =>
            \E ls \in {Leaves(root, <<>>)} :
               \E new \in {hash_leaf_value(hash(last'.key), last'.value.v)} :
                  (\E l \in ls : l.key = hash(last'.key) /\ l.data # new) =>
                      /\ status' = "ok"
                      /\ Leaves(root', <<>>) =
                            {IF l.key = hash(last'.key) THEN [l EXCEPT !.data = new]
                             ELSE l : l \in ls}]_vars

\* after a commit, an insert gave a new value to a key whose leaf is at depth
\* 3 beside the leaf of another key
C22_Witness ==
    /\ status = "ok"
    /\ ncommits >= 1
    /\ nops = 3
    /\ last.op = "insert"
    /\ last.had.some
    /\ last.had # last.value
    /\ \E ls \in {Leaves(root, <<>>)} :
          /\ Cardinality(ls) = 2
          /\ \E l \in ls :
                /\ l.key = hash(last.key)
                /\ Len(l.path) = 3
                /\ l.data = hash_leaf_value(l.key, last.value.v)

\* C23: in every session the offset Store::write_value and Store::write_node
\* return is the offset in the active file at which the bytes land at the
\* commit: Store.pos, from which the offsets are counted, is the length of
\* the file the commit appends to, also when the session was opened on a file
\* with bytes after its last complete meta record.
C23_WriteOffsetsAreFileOffsets ==
    status = "ok" => pos = Len(files[handle])

\* C24: every meta record a commit writes starts at a file offset that is a
\* multiple of 16, follows between 1 and 16 zero padding bytes that come
\* after the nodes and values of the commit, and holds in its meta_pos field
\* the file offset at which the record begins.
C24_MetaRecordsAligned ==
    [][(last'.op = "commit" /\ ncommits' = ncommits + 1) =>
          \E f \in {files'[handle]} :
             \E start \in {Len(f) - META_ENTRY_SIZE} :
                \E pad \in {start - Len(files[handle])
                                   - Len(write_to_store(root, buf, pos).buf)} :
                   /\ start % META_ENTRY_SIZE = 0
                   /\ SubSeq(f, start + 1, start + 4) = META_MAGIC
                   /\ pad \in 1..META_ENTRY_SIZE
                   /\ SubSeq(f, start - pad + 1, start) = Zeros(pad)
                   /\ ReadU32(f, start + 6) = start]_vars

\* the 16 bytes Meta::open read the fields of Store.meta from
SelectedRecord ==
    META_MAGIC \o U16(meta.index) \o U32(meta.pos) \o U16(meta.root_index)
    \o U32(meta.root_pos)

\* C25: after a crash that lost the tail of the active file, the meta record
\* open selects is a 16-byte record that a commit wrote as its meta record,
\* whatever values were inserted, also values whose bytes hold the magic
\* number at a 16-byte-aligned file offset.
C25_SelectedMetaWasWritten ==
    (out.op = "crash" /\ meta # DefaultMeta) => SelectedRecord \in durable.metas

\* C26: every insert, get, remove and prove call terminates: when the read of
\* the node a Hash node stands for fails, the call ends (with the failure)
\* and does not meet the same Hash node again.
C26_CallsTerminate ==
    /\ status # "hang"
    /\ out.op \in {"get", "prove"} => out.st # "hang"

\* C27: the log files are append-only: every commit leaves the bytes that
\* were in the files as they were and makes the active file strictly longer,
\* and the first position the store hands out for a commit is not lower than
\* the last position it handed out before for the same file.
C27_AppendOnly ==
    [][(last'.op = "commit" /\ ncommits' = ncommits + 1) =>
          /\ \A i \in DOMAIN files :
                /\ i \in DOMAIN files'
                /\ SubSeq(files'[i], 1, Len(files[i])) = files[i]
          /\ Len(files'[handle]) > Len(files[handle])
          /\ (durable'.handed # durable.handed /\ durable.handed.index = handle) =>
                pos >= durable.handed.pos]_vars

\* the positions write_to_store hands out for the tree n, writing from
\* position p on, are in post-order: the value of a leaf it writes lies
\* before the leaf, and an Internal it writes lies after every node it writes
\* for the two children
RECURSIVE PostOrder(_, _)
PostOrder(n, p) ==
    CASE n.type = "Internal" ->
            \E l \in {write_to_store(n.left, <<>>, p)} :
               \E r \in {write_to_store(n.right, <<>>, l.pos)} :
                  \E w \in {write_to_store(n, <<>>, p)} :
                     /\ PostOrder(n.left, p)
                     /\ PostOrder(n.right, l.pos)
                     /\ w.pos > r.pos =>
                           /\ w.node.pos = r.pos
                           /\ l.pos > p => l.node.pos < w.node.pos
                           /\ r.pos > l.pos => r.node.pos < w.node.pos
      [] n.type = "Leaf" ->
            \E w \in {write_to_store(n, <<>>, p)} :
               w.pos > p =>
                  /\ w.node.pos > p
                  /\ SubSeq(w.buf, 1, w.node.pos - p) = n.value.v
      [] OTHER -> TRUE

\* C28: the bytes one commit appends are in post-order: the value of each
\* leaf written before the leaf, each Internal written after the nodes
\* written for its children, then the padding, then the meta record, whose
\* meta_pos is greater than the position of the root.
C28_CommitWritesPostOrder ==
    [][(last'.op = "commit" /\ ncommits' = ncommits + 1) =>
          \E w \in {write_to_store(root, buf, pos)} :
             \E f \in {files'[handle]} :
                \E start \in {Len(f) - META_ENTRY_SIZE} :
                   /\ PostOrder(root, pos)
                   /\ SubSeq(f, 1, Len(files[handle]) + Len(w.buf)) = files[handle] \o w.buf
                   /\ SubSeq(f, Len(files[handle]) + Len(w.buf) + 1, start)
                         = Zeros(start - Len(files[handle]) - Len(w.buf))
                   /\ SubSeq(f, start + 1, start + 4) = META_MAGIC
                   /\ ReadU32(f, start + 6) > get_index_position(root')[2]]_vars

\* C29: a commit does not write again what is persisted.  A commit that
\* follows a commit with no call in between appends only padding and a meta
\* record with the root coordinates of the previous one, and after a commit
\* that follows a single insert or remove every leaf of another key that was
\* persisted at the previous commit is held under the same (index, pos).
C29_CommitKeepsPersistedNodes ==
    [][(last'.op = "commit" /\ ncommits' = ncommits + 1 /\ durable.some) =>
          /\ last.op = "commit" =>
                /\ write_to_store(root, buf, pos).buf = <<>>
                /\ root' = root
                /\ <<meta'.root_index, meta'.root_pos, meta'.is_leaf>>
                      = <<meta.root_index, meta.root_pos, meta.is_leaf>>
          /\ (last.op \in {"insert", "remove"} /\ nops = durable.nops + 1) =>
                \A c \in durable.coords :
                    c.key # hash(last.key) => c \in durable'.coords]_vars

\* the leaves of another key at which the descent for the key name k ends
CollidingLeaves(k) ==
    {l \in Leaves(root, <<>>) :
        /\ l.key # hash(k)
        /\ \A d \in 1..Len(l.path) : l.path[d] = has_bit(hash(k), d - 1)}

\* C30: for a key whose descent ends at a leaf holding another key, prove
\* returns a Collision proof with the key of that leaf, the hash of that
\* leaf's value and one sibling hash per Internal passed, and folding the
\* leaf hash of that key and hash with the siblings along the bits of the
\* queried key gives the root hash, for leaves in memory and leaves loaded
\* from the store.
C30_ProveCollision ==
    out.op = "prove" =>
        \A l \in CollidingLeaves(out.key) :
            /\ out.st = "ok"
            /\ out.proof.proof_type = "Collision"
            /\ out.proof.key = SomeDigest(l.key)
            /\ out.proof.hash.some
            /\ hash_leaf(l.key, out.proof.hash.v) = l.data
            /\ Len(out.proof.node_hashes) = Len(l.path)
            /\ Fold(hash_leaf(l.key, out.proof.hash.v), out.proof.node_hashes,
                    Len(out.proof.node_hashes) - 1, hash(out.key)) = get_root(root)

\* the proofs made from the proof p by replacing its value or one of its
\* sibling hashes by a different one
Tampered(p) ==
    {[p EXCEPT !.value = SomeValue(v)] : v \in {w \in Values : SomeValue(w) # p.value}}
    \cup UNION {{[p EXCEPT !.node_hashes[i] = d] : d \in ProofDigests \ {p.node_hashes[i]}} :
                  i \in 1..Len(p.node_hashes)}

\* C31: verify is sound: it returns a value v for the key k against the
\* root hash of the tree only when the tree holds the leaf of (k, v), and
\* when it accepts a proof it rejects that proof with its value or any of
\* its sibling hashes replaced by a different one, and under any other
\* queried key, in builds with and without overflow checks.
C31_VerifyIsSound ==
    (out.op = "prove" /\ out.st = "ok") =>
        \A oc \in BOOLEAN :
            \E r \in {verify(out.proof, get_root(root), out.key, oc)} :
                r.ok =>
                    /\ \E l \in Leaves(root, <<>>) :
                          /\ l.key = hash(out.key)
                          /\ l.data = hash_leaf_value(hash(out.key), r.value)
                    /\ \A t \in Tampered(out.proof) :
                          ~verify(t, get_root(root), out.key, oc).ok
                    /\ \A k \in KeyNames \ {out.key} :
                          ~verify(out.proof, get_root(root), k, oc).ok

\* verify accepted the proof of a key whose leaf lies at depth 3
C31_Witness ==
    /\ out.op = "prove"
    /\ out.st = "ok"
    /\ out.checked.ok
    /\ out.unchecked.ok
    /\ Len(out.proof.node_hashes) = 3
    /\ Tampered(out.proof) # {}

\* C32: on a well-formed proof with no sibling hashes verify computes its
\* starting depth without a panic, in builds with and without overflow
\* checks, and accepts an Exists proof exactly when the digest of its leaf
\* equals the root hash.
C32_VerifyWithoutSiblings ==
    (out.op = "verify" /\ out.proof.node_hashes = <<>> /\ is_sane(out.proof)) =>
        \A r \in {out.checked, out.unchecked} :
            /\ r.st = "ok"
            /\ out.proof.proof_type = "Exists" =>
                  (r.ok <=> hash_leaf_value(hash(out.key), out.proof.value.v)
                              = out.root_hash)

\* what decode is to make of the descriptor encode writes for the child c
Descriptor(c) ==
    IF get_index_position(c)[1] = 0 /\ NodeHash(c) = ZeroDigest
    THEN EmptyNode
    ELSE HashNode(get_index_position(c)[1], get_index_position(c)[2], NodeHash(c),
                  IF is_leaf(c) THEN 1 ELSE 0)

\* C33: the encoding of an Internal is 76 bytes, and decoding it gives an
\* Internal whose left and right child are each Empty exactly when the
\* child's file index is 0 and its hash the zero digest, and otherwise a
\* Hash node with the child's file index, position, hash and leaf flag.
C33_InternalCodecRoundTrip ==
    out.op = "codec" =>
        /\ Len(out.bits) = INTERNAL_NODE_SIZE
        /\ out.back.type = "Internal"
        /\ out.back.left = Descriptor(out.node.left)
        /\ out.back.right = Descriptor(out.node.right)

\* C34: a get or a prove leaves the tree in memory (the root and every node
\* under it, and so the root hash), the store's buffer, position and meta,
\* the file it appends to and the contents of every file as they were.
C34_ReadsChangeNothing ==
    [][out'.op \in {"get", "prove"} =>
          /\ root' = root
          /\ get_root(root') = get_root(root)
          /\ buf' = buf
          /\ pos' = pos
          /\ meta' = meta
          /\ handle' = handle
          /\ files' = files]_vars

\* a get that returned a value it read from the store through a Hash root,
\* with uncommitted changes in the tree or not
C34_Witness ==
    /\ out.op = "get"
    /\ out.st = "ok"
    /\ out.value.some
    /\ root.type = "Hash"
    /\ ncommits > 0

\* the leaf at which the descent of get for the key digest nkey ends, if it
\* ends at a leaf: the nodes get walks, in the order it walks them
RECURSIVE LeafReached(_, _, _)
LeafReached(cur, depth, nkey) ==
    CASE cur.type = "Hash" ->
            The({ IF hn.type \in {"Leaf", "Internal"}
                  THEN LeafReached(set_hash(hn, cur.data), depth, nkey)
                  ELSE {} :
                  hn \in {get_node(cur.index, cur.pos, is_leaf(cur))} })
      [] cur.type = "Leaf" -> {cur}
      [] cur.type = "Internal" ->
            IF depth >= KEY_SIZE THEN {}
            ELSE IF has_bit(nkey, depth) THEN LeafReached(cur.right, depth + 1, nkey)
            ELSE LeafReached(cur.left, depth + 1, nkey)
      [] OTHER -> {}

\* C35: when get reaches the leaf of the key and the value of that leaf has
\* to come from the store, a value that cannot be read (the read fails, or
\* the value runs past the end of the file) makes get end with an error,
\* never with "absent", and a value get returns is the one the hash of the
\* leaf was made from.
C35_UnreadableValueIsAnError ==
    out.op = "get_io" =>
        \A l \in LeafReached(root, 0, hash(out.key)) :
            (l.key = hash(out.key) /\ ~l.value.some) =>
                /\ (~out.value_read \/ ~get_value(l.vindex, l.vpos, l.vsize).ok) =>
                      out.st # "ok"
                /\ (out.st = "ok" /\ out.value.some) =>
                      l.data = hash_leaf_value(l.key, out.value.v)

RECURSIVE NodeBytes(_)
NodeBytes(n) ==
    CASE n.type = "Internal" ->
            NodeBytes(n.left) + NodeBytes(n.right)
            + (IF n.index = 0 THEN INTERNAL_NODE_SIZE ELSE 0)
      [] n.type = "Leaf" ->
            IF n.index = 0 /\ n.value.some THEN Len(n.value.v) + LEAF_NODE_SIZE ELSE 0
      [] OTHER -> 0

\* C37: Node::encode returns an error and no bytes for an Empty and for a
\* Hash node, and a commit appends to the file the values and packets of
\* the Leaf and Internal nodes it stores, the padding and the meta record:
\* no byte for an Empty node (nor for a Hash node), wherever it lies.
C37_EmptyAndHashNotEncoded ==
    /\ []((out.op = "encode" /\ out.node.type \in {"Empty", "Hash"}) =>
            (~out.result.ok /\ out.result.bytes = <<>>))
    /\ [][ncommits' = ncommits + 1 =>
            \E w \in {NodeBytes(root)} :
                Len(files'[handle]) - Len(files[handle])
                    = w + (META_ENTRY_SIZE - ((pos + w) % META_ENTRY_SIZE))
                        + META_ENTRY_SIZE]_vars

\* encode refused the Empty node after a commit of an Empty root that
\* appended the padding and the meta record only, an earlier commit having
\* stored an Internal with an Empty child
C37_Witness ==
    /\ out.op = "encode"
    /\ out.node = EmptyNode
    /\ ~out.result.ok
    /\ last.op = "commit"
    /\ root = EmptyNode
    /\ ncommits = 2
    /\ durable.appended = 2 * META_ENTRY_SIZE
    /\ Len(files[handle]) > 2 * META_ENTRY_SIZE + INTERNAL_NODE_SIZE + LEAF_NODE_SIZE
====
